---- MODULE Spec2Model ----
(***************************************************************************)
(* A model of PDKMaster's rule primitives (technology/primitive/rules.py)  *)
(* and of its cell factories (design/factory.py).                          *)
(*                                                                         *)
(* Rule primitives: a rule primitive is constructed from mask primitives   *)
(* and a threshold; _generate_rules is a Python generator function, so     *)
(* every invocation creates a frame of its own that is resumed one yield   *)
(* at a time; designmasks concatenates the operands' design masks.         *)
(*                                                                         *)
(* Cell factories: new_cell / getcreate_cell on a library shared by        *)
(* several factories, with the create_cb callback able to re-enter the     *)
(* factory before the cell under construction is added to the library.     *)
(***************************************************************************)
EXTENDS Integers, Sequences, FiniteSets, TLC

VARIABLES
    rp,       \* the rule primitive under study: <<>> before construction, <<obj>> after
    built,    \* the fields rp was constructed with (history)
    gens,     \* the live generator frames of rp._generate_rules, in creation order
    dm,       \* what rp.designmasks yielded when it was last read: None before
    base,     \* the rule sequence _Primitive._generate_rules yields
    heap,     \* every cell object constructed so far; a cell's id is its index
    cells,    \* lib.cells: the ids of the library's cells, in the order added
    stack,    \* the cells whose new_cell is suspended inside create_cb(cell), innermost last
    cbs,      \* the cells create_cb was invoked on, in order
    ret       \* how the call that acted last ended, and the cell it returned

rvars == <<rp, built, gens, dm, base>>
fvars == <<heap, cells, stack, cbs, ret>>
vars == <<rp, built, gens, dm, base, heap, cells, stack, cbs, ret>>

\* Largest group handed to Spacing.
MaxGroup == 2
\* Largest number of generator frames alive at once.
MaxGens == 2

\* Largest number of cell objects constructed.
MaxCells == 2
\* Deepest create_cb from which the factory is called again.
MaxNest == 1

\* str.format's precision in "{:.6}".
Precision == 6

(***************************************************************************)
(* Mask primitives.  Only name, mask and designmasks are read by rules.py. *)
(* A name is any str; "m,m" is a mask primitive whose name holds a comma   *)
(* (a derived layer over m and n).                                         *)
(***************************************************************************)
MaskPrimitives ==
    { [name |-> "m",   mask |-> "mask:m",   designmasks |-> <<"m">>],
      [name |-> "n",   mask |-> "mask:n",   designmasks |-> <<"n">>],
      [name |-> "m,m", mask |-> "mask:m,m", designmasks |-> <<"m", "n">>] }

\* Thresholds (min_width, min_space, min_enclosure), floats counted in units of 1e-7:
\* 0.15 and 0.2000001.
Thresholds == {1500000, 2000001}

\* Optional[...]: None is the empty sequence, a present value v is <<v>>.
None == <<>>
Some(v) == <<v>>

\* The sequences over S of length lo..hi without a repeated member.
Groups(S, lo, hi) ==
    { g \in UNION { [1..k -> S] : k \in lo..hi } :
        \A i, j \in 1..Len(g) : i # j => g[i] # g[j] }

RECURSIVE Pow10(_)
Pow10(k) == IF k = 0 THEN 1 ELSE 10 * Pow10(k - 1)

RECURSIVE NumDigits(_)
NumDigits(n) == IF n < 10 THEN 1 ELSE 1 + NumDigits(n \div 10)

Digit(d) ==
    CASE d = 0 -> "0" [] d = 1 -> "1" [] d = 2 -> "2" [] d = 3 -> "3" [] d = 4 -> "4"
      [] d = 5 -> "5" [] d = 6 -> "6" [] d = 7 -> "7" [] d = 8 -> "8" [] d = 9 -> "9"

\* n as exactly w decimal digits.
RECURSIVE DigitsFixed(_, _)
DigitsFixed(n, w) ==
    IF w = 0 THEN ""
    ELSE Digit(n \div Pow10(w - 1)) \o DigitsFixed(n % Pow10(w - 1), w - 1)

\* The w fraction digits of f without trailing zeros, one digit at least.
RECURSIVE StripZeros(_, _)
StripZeros(f, w) ==
    IF w > 1 /\ f % 10 = 0 THEN StripZeros(f \div 10, w - 1) ELSE DigitsFixed(f, w)

\* n rounded (half to even) to Precision significant digits.
Round6(n) ==
    LET d == NumDigits(n) IN
    IF d <= Precision THEN n
    ELSE LET s == Pow10(d - Precision)
             q == n \div s
             r == n % s
             up == (2 * r > s) \/ (2 * r = s /\ q % 2 = 1)
         IN  (IF up THEN q + 1 ELSE q) * s

\* "{:.6}".format(x) for a float x = n * 1e-7 with 1e-4 <= x < 1e6 (fixed notation).
Fmt6(n) ==
    LET r == Round6(n) IN
    DigitsFixed(r \div Pow10(7), NumDigits(r \div Pow10(7))) \o "." \o StripZeros(r % Pow10(7), 7)

\* ",".join(prim.name for prim in prims)
RECURSIVE JoinNames(_)
JoinNames(prims) ==
    IF Len(prims) = 0 THEN ""
    ELSE IF Len(prims) = 1 THEN prims[1].name
    ELSE prims[1].name \o "," \o JoinNames(Tail(prims))

\* prims[0].name if len(prims) == 1 else "({})".format(",".join(...))
GroupNameAlwaysParen(prims) ==
    "(" \o JoinNames(prims) \o ")"
GroupName(prims) ==
    IF Len(prims) = 1 THEN prims[1].name
    ELSE "(" \o JoinNames(prims) \o ")"

\* The name Spacing.__init__ computes.
SpacingName(primitives1, primitives2, min_space) ==
    IF primitives2 # None
    THEN "Spacing(" \o GroupName(primitives1) \o "," \o GroupName(primitives2[1])
             \o "," \o Fmt6(min_space) \o ")"
    ELSE "Spacing(" \o GroupName(primitives1) \o ",None," \o Fmt6(min_space) \o ")"

\* repr() of a mask primitive and of an enclosure value, as embedded in names.
ReprPrim(p) == p.name
ReprEnclosure(e) == "Enclosure(" \o Fmt6(e) \o ")"

(***************************************************************************)
(* Construction: __init__ of the four variants.  No __init__ validates its *)
(* arguments; each computes the name and stores the fields.                *)
(***************************************************************************)
MinWidth(prim, min_width) ==
    [cls |-> "MinWidth",
     name |-> "MinWidth(" \o prim.name \o "," \o Fmt6(min_width) \o ")",
     prim |-> prim, min_width |-> min_width]

Spacing(primitives1, primitives2, min_space) ==
    [cls |-> "Spacing",
     name |-> SpacingName(primitives1, primitives2, min_space),
     primitives1 |-> primitives1, primitives2 |-> primitives2, min_space |-> min_space]

Enclosure(prim, by, min_enclosure) ==
    [cls |-> "Enclosure",
     name |-> "Enclosure(prim=" \o ReprPrim(prim) \o ",by=" \o ReprPrim(by)
                  \o ",min_enclosure=" \o ReprEnclosure(min_enclosure) \o ")",
     prim |-> prim, by |-> by, min_enclosure |-> min_enclosure]

NoOverlap(prim1, prim2) ==
    [cls |-> "NoOverlap",
     name |-> "NoOverlap(prim1=" \o ReprPrim(prim1) \o ",prim2=" \o ReprPrim(prim2) \o ")",
     prim1 |-> prim1, prim2 |-> prim2]

(***************************************************************************)
(* Rules.  A rule compares a measure of some masks with a threshold.       *)
(***************************************************************************)
Rule(fn, masks, op, rhs) == [fn |-> fn, masks |-> masks, op |-> op, rhs |-> rhs]

\* A rule a future _Primitive._generate_rules could yield for every primitive.
BaseRule == Rule("base", <<>>, ">=", 0)

\* itertools.product(a, b): the outer loop runs over a, the inner over b.
RECURSIVE productInnerMajor(_, _)
productInnerMajor(a, b) ==
    IF Len(b) = 0 THEN <<>>
    ELSE [i \in 1..Len(a) |-> <<a[i], Head(b)>>] \o productInnerMajor(a, Tail(b))
RECURSIVE product(_, _)
product(a, b) ==
    IF Len(a) = 0 THEN <<>>
    ELSE [j \in 1..Len(b) |-> <<Head(a), b[j]>>] \o product(Tail(a), b)

\* The masks handed to _msk.Join: prim1.mask for prim1 in self.primitives1.
JoinMasksSkipFirst(prims) == [i \in 1..(Len(prims) - 1) |-> prims[i + 1].mask]
JoinMasks(prims) == [i \in 1..Len(prims) |-> prims[i].mask]

\* Whether the variant's _generate_rules starts with
\* "yield from super()._generate_rules(tech=tech)".
ChainsBase(cls) == cls \in {"Spacing", "Enclosure", "NoOverlap"}

\* The rules the variant's own code yields after the base part, in order.
OwnRules(o) ==
    CASE o.cls = "MinWidth" ->
           << Rule("width", <<o.prim.mask>>, ">=", o.min_width) >>
      [] o.cls = "Spacing" ->
           IF o.primitives2 = None
           THEN << Rule("join.space", JoinMasks(o.primitives1), ">=", o.min_space) >>
           ELSE LET pairs == product(o.primitives1, o.primitives2[1]) IN
                [k \in 1..Len(pairs) |->
                    Rule("spacing", <<pairs[k][1].mask, pairs[k][2].mask>>, ">=", o.min_space)]
      [] o.cls = "Enclosure" ->
           << Rule("enclosed_by", <<o.prim.mask, o.by.mask>>, ">=", o.min_enclosure) >>
      [] o.cls = "NoOverlap" ->
           << Rule("intersect.area", <<o.prim1.mask, o.prim2.mask>>, "==", 0) >>

(***************************************************************************)
(* Generator frames.  Calling _generate_rules runs no code: it creates a   *)
(* frame suspended at the top of the function.  next() resumes the frame   *)
(* up to its next yield, or to its end.                                    *)
(***************************************************************************)
\* A frame that shares its position with the frames already alive.
NewGeneratorShared(gs) ==
    IF Len(gs) = 0 THEN [pc |-> "start", k |-> 0, out |-> <<>>]
    ELSE [pc |-> gs[Len(gs)].pc, k |-> gs[Len(gs)].k, out |-> <<>>]
NewGenerator(gs) == [pc |-> "start", k |-> 0, out |-> <<>>]

\* The variant's own part, resumed with k of its rules already yielded.
OwnStep(o, k, out) ==
    IF k < Len(OwnRules(o))
    THEN [pc |-> "own", k |-> k + 1, out |-> Append(out, OwnRules(o)[k + 1])]
    ELSE [pc |-> "done", k |-> k, out |-> out]

\* One next() on frame g of o._generate_rules.
Resume(o, g) ==
    IF g.pc = "start"
    THEN IF ChainsBase(o.cls) /\ g.k < Len(base)
         THEN [pc |-> "start", k |-> g.k + 1, out |-> Append(g.out, base[g.k + 1])]
         ELSE OwnStep(o, 0, g.out)
    ELSE OwnStep(o, g.k, g.out)

\* The designmasks of the members of a group, concatenated.
RECURSIVE GroupDesignmasks(_)
GroupDesignmasks(prims) ==
    IF Len(prims) = 0 THEN <<>>
    ELSE Head(prims).designmasks \o GroupDesignmasks(Tail(prims))

\* _Primitive.designmasks, which every variant yields first.
BaseDesignmasks == <<>>

\* Spacing.designmasks without the second group.
SpacingDesignmasksFirstOnly(o) ==
    BaseDesignmasks \o GroupDesignmasks(o.primitives1)
SpacingDesignmasks(o) ==
    BaseDesignmasks \o
    (IF o.primitives2 # None
     THEN GroupDesignmasks(o.primitives1 \o o.primitives2[1])
     ELSE GroupDesignmasks(o.primitives1))

\* The designmasks property of the four variants.
designmasks(o) ==
    CASE o.cls = "MinWidth"  -> BaseDesignmasks \o o.prim.designmasks
      [] o.cls = "Spacing"   -> SpacingDesignmasks(o)
      [] o.cls = "Enclosure" -> BaseDesignmasks \o o.prim.designmasks \o o.by.designmasks
      [] o.cls = "NoOverlap" -> BaseDesignmasks \o o.prim1.designmasks \o o.prim2.designmasks

(***************************************************************************)
(* Actions on rule primitives.                                             *)
(***************************************************************************)
NewMinWidth ==
    /\ rp = <<>>
    /\ \E prim \in MaskPrimitives, w \in Thresholds :
          /\ rp' = <<MinWidth(prim, w)>>
          /\ built' = rp'
    /\ UNCHANGED <<gens, dm, base>>
    /\ UNCHANGED fvars

NewSpacing ==
    /\ rp = <<>>
    /\ \E p1 \in Groups(MaskPrimitives, 0, MaxGroup),
          p2 \in {None} \cup { Some(g) : g \in Groups(MaskPrimitives, 0, MaxGroup) },
          s \in Thresholds :
          /\ rp' = <<Spacing(p1, p2, s)>>
          /\ built' = rp'
    /\ UNCHANGED <<gens, dm, base>>
    /\ UNCHANGED fvars

NewEnclosure ==
    /\ rp = <<>>
    /\ \E prim \in MaskPrimitives, by \in MaskPrimitives, e \in Thresholds :
          /\ rp' = <<Enclosure(prim, by, e)>>
          /\ built' = rp'
    /\ UNCHANGED <<gens, dm, base>>
    /\ UNCHANGED fvars

NewNoOverlap ==
    /\ rp = <<>>
    /\ \E prim1 \in MaskPrimitives, prim2 \in MaskPrimitives :
          /\ rp' = <<NoOverlap(prim1, prim2)>>
          /\ built' = rp'
    /\ UNCHANGED <<gens, dm, base>>
    /\ UNCHANGED fvars

\* rp._generate_rules(tech=tech): a new frame; nothing runs yet.
GenerateRules ==
    /\ rp # <<>>
    /\ Len(gens) < MaxGens
    /\ gens' = Append(gens, NewGenerator(gens))
    /\ UNCHANGED <<rp, built, dm, base>>
    /\ UNCHANGED fvars

\* next() on one of the live frames.
NextRule ==
    /\ \E i \in 1..Len(gens) :
          /\ gens[i].pc # "done"
          /\ gens' = [gens EXCEPT ![i] = Resume(rp[1], gens[i])]
    /\ UNCHANGED <<rp, built, dm, base>>
    /\ UNCHANGED fvars

\* The caller drops a frame, consumed wholly or in part.
DropGenerator ==
    /\ \E i \in 1..Len(gens) :
          gens' = [j \in 1..(Len(gens) - 1) |-> IF j < i THEN gens[j] ELSE gens[j + 1]]
    /\ UNCHANGED <<rp, built, dm, base>>
    /\ UNCHANGED fvars

\* list(rp.designmasks): the property is read to its end.
ReadDesignmasks ==
    /\ rp # <<>>
    /\ dm' = Some(designmasks(rp[1]))
    /\ UNCHANGED <<rp, built, gens, base>>
    /\ UNCHANGED fvars

RInit ==
    /\ rp = <<>>
    /\ built = <<>>
    /\ gens = <<>>
    /\ dm = None

(***************************************************************************)
(* Cell factories.  Two CellFactory objects and one BaseCellFactory share  *)
(* one library.                                                            *)
(***************************************************************************)
Factories ==
    { [id |-> "fab1", kind |-> "CellFactory", cell_class |-> "FactoryCell",
       name_prefix |-> "", name_suffix |-> ""],
      [id |-> "fab2", kind |-> "CellFactory", cell_class |-> "SubCell",
       name_prefix |-> "x_", name_suffix |-> ""] }

BaseFactory == [id |-> "basefab", kind |-> "BaseCellFactory"]

\* The names handed to new_cell and getcreate_cell.
CellNames == {"c", "x_c"}

\* cell_class arguments; "None" is the argument left out.
CellClassArgs == {"None", "SubCell"}

\* The classes a class is a subclass of (itself included).
Bases(cls) ==
    CASE cls = "Cell"        -> {"Cell"}
      [] cls = "FactoryCell" -> {"FactoryCell", "Cell"}
      [] cls = "SubCell"     -> {"SubCell", "FactoryCell", "Cell"}

\* isinstance(cell, cell_class)
isinstanceAlways(cell, cell_class) == TRUE
isinstance(cell, cell_class) == cell_class \in Bases(cell.cls)

\* CellFactory.lib_name
lib_name(fab, name) == fab.name_prefix \o name \o fab.name_suffix

\* Whether self.lib.cells[lib_name] finds a cell (the try's else branch is taken).
HasCellNever(cs, name) == FALSE
HasCell(cs, name) == \E i \in 1..Len(cs) : heap[cs[i]].name = name

\* self.lib.cells[lib_name]: the cell of that name (the one added last).
Lookup(cs, name) ==
    cs[CHOOSE i \in 1..Len(cs) :
         /\ heap[cs[i]].name = name
         /\ \A j \in (i + 1)..Len(cs) : heap[cs[j]].name # name]

\* self.lib.cells += cell.  The collection is not part of these sources: where the
\* name is new the cell is appended; where a cell of that name is held already the
\* collection either refuses (raising, unchanged) or appends.
CellsAdd(cs, id) ==
    IF HasCell(cs, heap[id].name) THEN {cs, Append(cs, id)} ELSE {Append(cs, id)}

\* "if cell_class is None: cell_class = self._cell_class"
ResolveClass(fab, cell_class) == IF cell_class = "None" THEN fab.cell_class ELSE cell_class

Result(outcome, cell) == [outcome |-> outcome, cell |-> cell]

\* CellFactory.new_cell, up to the call of create_cb or, without one, to its return.
new_cell(fab, name, cell_class, create_cb) ==
    LET ln == lib_name(fab, name)
        id == Len(heap) + 1
    IN  IF HasCell(cells, ln)
        THEN /\ ret' = Result("ValueError", 0)
             /\ UNCHANGED <<heap, cells, stack, cbs>>
        ELSE /\ Len(heap) < MaxCells
             /\ heap' = Append(heap, [name |-> ln, cls |-> ResolveClass(fab, cell_class),
                                      fab |-> fab.id])
             /\ IF create_cb
                THEN /\ cbs' = Append(cbs, id)
                     /\ stack' = Append(stack, id)
                     /\ ret' = Result("in create_cb", id)
                     /\ UNCHANGED cells
                ELSE /\ cells' = Append(cells, id)
                     /\ ret' = Result("returned", id)
                     /\ UNCHANGED <<stack, cbs>>

\* CellFactory.getcreate_cell.
getcreate_cell(fab, name, cell_class, create_cb) ==
    LET ln == lib_name(fab, name) IN
    IF HasCell(cells, ln)
    THEN /\ ret' = IF isinstance(heap[Lookup(cells, ln)], ResolveClass(fab, cell_class))
                    THEN Result("returned", Lookup(cells, ln))
                    ELSE Result("TypeError", 0)
         /\ UNCHANGED <<heap, cells, stack, cbs>>
    ELSE new_cell(fab, name, cell_class, create_cb)

\* BaseCellFactory.new_cell.
base_new_cell(name) ==
    IF HasCell(cells, name)
    THEN /\ ret' = Result("ValueError", 0)
         /\ UNCHANGED <<heap, cells, stack, cbs>>
    ELSE /\ Len(heap) < MaxCells
         /\ heap' = Append(heap, [name |-> name, cls |-> "Cell", fab |-> BaseFactory.id])
         /\ cells' = Append(cells, Len(heap) + 1)
         /\ ret' = Result("returned", Len(heap) + 1)
         /\ UNCHANGED <<stack, cbs>>

\* A call of CellFactory.new_cell with at most d callbacks running.
CellFactory_new_cell(d) ==
    /\ Len(stack) <= d
    /\ \E fab \in Factories, name \in CellNames, cell_class \in CellClassArgs,
          create_cb \in BOOLEAN :
          new_cell(fab, name, cell_class, create_cb)
    /\ UNCHANGED rvars

\* A call of CellFactory.getcreate_cell with at most d callbacks running.
CellFactory_getcreate_cell(d) ==
    /\ Len(stack) <= d
    /\ \E fab \in Factories, name \in CellNames, cell_class \in CellClassArgs,
          create_cb \in BOOLEAN :
          getcreate_cell(fab, name, cell_class, create_cb)
    /\ UNCHANGED rvars

\* A call of BaseCellFactory.new_cell with at most d callbacks running.
BaseCellFactory_new_cell(d) ==
    /\ Len(stack) <= d
    /\ \E name \in CellNames : base_new_cell(name)
    /\ UNCHANGED rvars

\* create_cb returns: new_cell goes on with "self.lib.cells += cell; return cell".
CreateCbReturns ==
    /\ Len(stack) > 0
    /\ LET cell == stack[Len(stack)] IN
          /\ cells' \in CellsAdd(cells, cell)
          /\ ret' = IF cells' = cells THEN Result("ValueError", 0)
                                      ELSE Result("returned", cell)
    /\ stack' = SubSeq(stack, 1, Len(stack) - 1)
    /\ UNCHANGED <<heap, cbs>>
    /\ UNCHANGED rvars

\* create_cb raises: the exception leaves new_cell, the cell is not added.
CreateCbRaises ==
    /\ Len(stack) > 0
    /\ ret' = Result("raised", 0)
    /\ stack' = SubSeq(stack, 1, Len(stack) - 1)
    /\ UNCHANGED <<heap, cells, cbs>>
    /\ UNCHANGED rvars

FInit ==
    /\ heap = <<>>
    /\ cells = <<>>
    /\ stack = <<>>
    /\ cbs = <<>>
    /\ ret = Result("none", 0)

(***************************************************************************)
(* Specifications.                                                         *)
(***************************************************************************)
Init == RInit /\ base = <<>> /\ FInit
Next ==
    \/ NewMinWidth
    \/ NewSpacing
    \/ NewEnclosure
    \/ NewNoOverlap
    \/ GenerateRules
    \/ NextRule
    \/ DropGenerator
    \/ ReadDesignmasks
\* Rule primitives, with the base class as it is: it yields no rule.
Spec == Init /\ [][Next]_vars

InitFwd == RInit /\ base \in {<<>>, <<BaseRule>>} /\ FInit
\* Rule primitives over a base class that may yield a rule of its own.
SpecFwd == InitFwd /\ [][Next]_vars

NextFab ==
    \/ CellFactory_new_cell(0)
    \/ CellFactory_getcreate_cell(0)
    \/ BaseCellFactory_new_cell(0)
    \/ CreateCbReturns
    \/ CreateCbRaises
\* The factories, called from outside callbacks only.
SpecFab == Init /\ [][NextFab]_vars

NextReentrant ==
    \/ CellFactory_new_cell(MaxNest)
    \/ CellFactory_getcreate_cell(MaxNest)
    \/ BaseCellFactory_new_cell(MaxNest)
    \/ CreateCbReturns
    \/ CreateCbRaises
\* The factories, called from outside callbacks and from inside create_cb.
SpecReentrant == Init /\ [][NextReentrant]_vars

(***************************************************************************)
(* Properties.                                                             *)
(***************************************************************************)
IsSpacing == rp # <<>> /\ rp[1].cls = "Spacing"
TwoGroups == IsSpacing /\ rp[1].primitives2 # None
OneGroup == IsSpacing /\ rp[1].primitives2 = None

\* C1: a Spacing with both groups, of sizes m and n, yields exactly m*n rules, the
\* rule at place (i-1)*n + j being spacing(primitives1[i].mask, primitives2[j].mask)
\* >= min_space: every ordered pair once, group1-major.  A generator consumed in
\* part has yielded a prefix of that sequence.
C1_ProductOrder ==
    TwoGroups =>
        LET p1 == rp[1].primitives1
            p2 == rp[1].primitives2[1]
            m == Len(p1)
            n == Len(p2)
        IN  \A g \in 1..Len(gens) :
              /\ Len(gens[g].out) <= m * n
              /\ gens[g].pc = "done" => Len(gens[g].out) = m * n
              /\ \A i \in 1..m, j \in 1..n :
                    (i - 1) * n + j <= Len(gens[g].out) =>
                        gens[g].out[(i - 1) * n + j] =
                            [fn |-> "spacing", masks |-> <<p1[i].mask, p2[j].mask>>,
                             op |-> ">=", rhs |-> rp[1].min_space]

C1_Witness ==
    /\ TwoGroups
    /\ Len(rp[1].primitives1) = 2
    /\ Len(rp[1].primitives2[1]) = 2
    /\ \E g \in 1..Len(gens) : gens[g].pc = "done" /\ Len(gens[g].out) = 4

\* C2: no Spacing exists in the single-group form with fewer than two members
\* (construction is to fail with InvalidGroupConfiguration).
C2_NoSmallSingleGroup ==
    OneGroup => Len(rp[1].primitives1) >= 2

\* C3: the rules a variant yields start with the base class's rule sequence, for
\* each of MinWidth, Spacing, Enclosure and NoOverlap.
C3_BaseFirst ==
    \A g \in 1..Len(gens) :
        gens[g].pc \in {"own", "done"} =>
            /\ Len(gens[g].out) >= Len(base)
            /\ SubSeq(gens[g].out, 1, Len(base)) = base

\* The mask primitives a rule primitive references, in declaration order.
Operands(o) ==
    CASE o.cls = "MinWidth"  -> <<o.prim>>
      [] o.cls = "Spacing"   -> o.primitives1 \o (IF o.primitives2 = None THEN <<>>
                                                   ELSE o.primitives2[1])
      [] o.cls = "Enclosure" -> <<o.prim, o.by>>
      [] o.cls = "NoOverlap" -> <<o.prim1, o.prim2>>

Count(seq, x) == Cardinality({ i \in 1..Len(seq) : seq[i] = x })

RECURSIVE SumCounts(_, _)
SumCounts(prims, x) ==
    IF Len(prims) = 0 THEN 0
    ELSE SumCounts(SubSeq(prims, 1, Len(prims) - 1), x)
             + Count(prims[Len(prims)].designmasks, x)

RECURSIVE ConcatFromRight(_)
ConcatFromRight(prims) ==
    IF Len(prims) = 0 THEN <<>>
    ELSE ConcatFromRight(SubSeq(prims, 1, Len(prims) - 1)) \o prims[Len(prims)].designmasks

\* C4: designmasks is the concatenation of the operands' designmasks in declaration
\* order, nothing removed: a leaf mask occurs once per operand path that reaches it.
C4_Designmasks ==
    dm # None =>
        /\ dm[1] = ConcatFromRight(Operands(rp[1]))
        /\ \A leaf \in {"m", "n"} : Count(dm[1], leaf) = SumCounts(Operands(rp[1]), leaf)

C4_Witness ==
    /\ dm # None
    /\ TwoGroups
    /\ Count(dm[1], "m") = 2
    /\ Len(rp[1].primitives2[1]) >= 1

\* C5: a Spacing without primitives2 and with k >= 2 members yields exactly one rule,
\* the spacing of the join of the k members' masks, in order, >= min_space.
C5_SingleGroupJoin ==
    (OneGroup /\ Len(rp[1].primitives1) >= 2) =>
        \A g \in 1..Len(gens) :
            /\ Len(gens[g].out) <= 1
            /\ gens[g].pc \in {"own", "done"} =>
                  /\ Len(gens[g].out) = 1
                  /\ gens[g].out[1].fn = "join.space"
                  /\ gens[g].out[1].op = ">="
                  /\ gens[g].out[1].rhs = rp[1].min_space
                  /\ Len(gens[g].out[1].masks) = Len(rp[1].primitives1)
                  /\ \A i \in 1..Len(rp[1].primitives1) :
                        gens[g].out[1].masks[i] = rp[1].primitives1[i].mask

C5_Witness ==
    /\ OneGroup
    /\ Len(rp[1].primitives1) = 2
    /\ \E g \in 1..Len(gens) : gens[g].pc = "done"

Min(a, b) == IF a < b THEN a ELSE b

\* C6: all invocations of _generate_rules yield the same sequence, however they are
\* interleaved and however much of each is consumed, and the primitive's fields stay
\* as constructed.
C6_Idempotent ==
    /\ rp = built
    /\ \A g, h \in 1..Len(gens) :
          /\ \A k \in 1..Min(Len(gens[g].out), Len(gens[h].out)) :
                gens[g].out[k] = gens[h].out[k]
          /\ gens[g].pc = "done" => Len(gens[h].out) <= Len(gens[g].out)
          /\ (gens[g].pc = "done" /\ gens[h].pc = "done") => gens[g].out = gens[h].out

C6_Witness ==
    /\ TwoGroups
    /\ Len(gens) = 2
    /\ gens[1].pc = "own" /\ Len(gens[1].out) = 1
    /\ gens[2].pc = "done" /\ Len(gens[2].out) = 4

\* A group as the claim words it: the bare name of a single member, else the members'
\* names in caller order, comma-joined, in parentheses.
RECURSIVE CommaList(_)
CommaList(prims) ==
    IF Len(prims) = 1 THEN prims[1].name
    ELSE CommaList(SubSeq(prims, 1, Len(prims) - 1)) \o "," \o prims[Len(prims)].name

Rendered(prims) ==
    IF Len(prims) = 1 THEN prims[1].name ELSE "(" \o CommaList(prims) \o ")"

\* The orders of the members of group g other than g itself.
Reorderings(g) ==
    { h \in Groups(MaskPrimitives, Len(g), Len(g)) :
        h # g /\ { h[i] : i \in 1..Len(h) } = { g[i] : i \in 1..Len(g) } }

\* The name of rp is built again from its fields, the groups rendered as claimed.
NameAsRendered ==
    /\ rp[1].name = SpacingName(rp[1].primitives1, rp[1].primitives2, rp[1].min_space)
    /\ (Len(rp[1].primitives1) >= 1 /\ OneGroup) =>
          rp[1].name = "Spacing(" \o Rendered(rp[1].primitives1) \o ",None,"
                           \o Fmt6(rp[1].min_space) \o ")"
    /\ (Len(rp[1].primitives1) >= 1 /\ TwoGroups /\ Len(rp[1].primitives2[1]) >= 1) =>
          rp[1].name = "Spacing(" \o Rendered(rp[1].primitives1) \o ","
                           \o Rendered(rp[1].primitives2[1]) \o ","
                           \o Fmt6(rp[1].min_space) \o ")"

CommaFree(g) == \A i \in 1..Len(g) : g[i].name \in {"m", "n"}

\* Whether reordering the members of a group changes the name; with commaFreeOnly,
\* for the groups whose member names hold no comma.
ReorderingChangesName(commaFreeOnly) ==
    /\ (commaFreeOnly => CommaFree(rp[1].primitives1)) =>
          \A h \in Reorderings(rp[1].primitives1) :
              SpacingName(h, rp[1].primitives2, rp[1].min_space) # rp[1].name
    /\ (TwoGroups /\ (commaFreeOnly => CommaFree(rp[1].primitives2[1]))) =>
          \A h \in Reorderings(rp[1].primitives2[1]) :
              SpacingName(rp[1].primitives1, Some(h), rp[1].min_space) # rp[1].name

\* C7 as claimed: the name of a Spacing is a function of the ordered member names and
\* the threshold, a group renders as the bare name or the parenthesised list, and
\* every reordering of a multi-member group of distinct names changes the name.
C7_NameOrderSensitive ==
    IsSpacing => (NameAsRendered /\ ReorderingChangesName(FALSE))

\* C7 as amended: the same, the reordering part for groups whose member names hold no
\* comma.
C7_NameOrderSensitiveCommaFree ==
    IsSpacing => (NameAsRendered /\ ReorderingChangesName(TRUE))

C7_Witness ==
    /\ TwoGroups
    /\ Len(rp[1].primitives1) = 2
    /\ CommaFree(rp[1].primitives1)
    /\ Len(rp[1].primitives2[1]) = 1

\* cls is klass or a subclass of it.
SubclassOf(cls, klass) ==
    \/ cls = klass
    \/ <<cls, klass>> \in { <<"SubCell", "FactoryCell">>, <<"SubCell", "Cell">>,
                           <<"FactoryCell", "Cell">> }

\* The library holds a cell of that library name.
Held(ln) == \E i \in 1..Len(cells) : heap[cells[i]].name = ln

\* C8: getcreate_cell on a library name that is held constructs no cell, runs no
\* create_cb and leaves the library as it is; it returns the held cell where that is
\* an instance of the requested class (the factory's default without one) and raises
\* TypeError where not.  On a name that is not held it constructs the cell as
\* new_cell does.
C8_GetOrCreate ==
    [][ \A fab \in Factories, name \in CellNames, cell_class \in CellClassArgs,
          create_cb \in BOOLEAN :
          getcreate_cell(fab, name, cell_class, create_cb) =>
              LET ln == fab.name_prefix \o name \o fab.name_suffix
                  klass == IF cell_class = "None" THEN fab.cell_class ELSE cell_class
              IN  IF Held(ln)
                  THEN /\ heap' = heap /\ cells' = cells /\ cbs' = cbs /\ stack' = stack
                       /\ \E i \in 1..Len(cells) :
                             /\ heap[cells[i]].name = ln
                             /\ IF SubclassOf(heap[cells[i]].cls, klass)
                                THEN ret' = [outcome |-> "returned", cell |-> cells[i]]
                                ELSE ret' = [outcome |-> "TypeError", cell |-> 0]
                  ELSE /\ new_cell(fab, name, cell_class, create_cb)
                       /\ Len(heap') = Len(heap) + 1
                       /\ heap'[Len(heap')].name = ln
                       /\ heap'[Len(heap')].cls = klass
      ]_vars

C8_Witness ==
    /\ ret.outcome = "TypeError"
    /\ Len(cells) >= 1

\* C9: new_cell of either factory class on a library name that is held raises
\* ValueError, constructing no cell, running no create_cb and leaving the library as it
\* is; so the library holds at most one cell per library name.
C9_NewCellRejectsHeld ==
    [][ /\ \A fab \in Factories, name \in CellNames, cell_class \in CellClassArgs,
             create_cb \in BOOLEAN :
             (new_cell(fab, name, cell_class, create_cb)
                  /\ Held(fab.name_prefix \o name \o fab.name_suffix)) =>
                 /\ ret' = [outcome |-> "ValueError", cell |-> 0]
                 /\ heap' = heap /\ cells' = cells /\ cbs' = cbs /\ stack' = stack
        /\ \A name \in CellNames :
             (base_new_cell(name) /\ Held(name)) =>
                 /\ ret' = [outcome |-> "ValueError", cell |-> 0]
                 /\ heap' = heap /\ cells' = cells /\ cbs' = cbs /\ stack' = stack
        /\ \A i, j \in 1..Len(cells') :
             heap'[cells'[i]].name = heap'[cells'[j]].name => i = j
      ]_vars

C9_Witness ==
    /\ ret.outcome = "ValueError"
    /\ Len(cells) = 2

\* The cells that are in the library or under construction inside create_cb.
Live == { cells[i] : i \in 1..Len(cells) } \cup { stack[i] : i \in 1..Len(stack) }

\* C10: for a factory and a library name, at most one cell is in the library or under
\* construction, and create_cb ran on at most one such cell, also while create_cb runs
\* and calls the factory again.
C10_OneCellPerName ==
    /\ \A c, d \in Live :
          (heap[c].fab = heap[d].fab /\ heap[c].name = heap[d].name) => c = d
    /\ \A a, b \in 1..Len(cbs) :
          (/\ cbs[a] \in Live /\ cbs[b] \in Live
           /\ heap[cbs[a]].fab = heap[cbs[b]].fab
           /\ heap[cbs[a]].name = heap[cbs[b]].name) => a = b

====
